---- MODULE Spec2Model ----
(***************************************************************************)
(* A model of testdata-generator-python: the field resolver                *)
(* (TestDataGenerator._generate_field), the schema generator               *)
(* (generate_from_schema / generate), the template registry (TEMPLATES,    *)
(* get_template_schema), the SQL formatter and the `generate` command.     *)
(*                                                                         *)
(* Python values are tagged records:                                       *)
(*   None  [t |-> "none"]            bool  [t |-> "bool", b |-> TRUE]       *)
(*   int   [t |-> "int", n |-> 5]    float [t |-> "float", m |-> .., d |-> ..]*)
(*   str   [t |-> "str", s |-> <<chunks>>]  the text is the concatenation  *)
(*         of the chunks; text whose characters matter is one chunk a char *)
(*   list  [t |-> "list", items |-> <<..>>]                                *)
(*   dict  [t |-> "dict", pairs |-> << <<key, value>>, .. >>] in insertion *)
(*         order, keys unique                                              *)
(***************************************************************************)
EXTENDS Integers, Sequences, FiniteSets, TLC

VARIABLES
    \* generator runs (Spec)
    seed, schema, count, run, pc, gen, result, first,
    \* field resolver applied to one specification (SpecField)
    fspec, fctx, fout,
    \* template registry and a caller holding a schema (SpecReg)
    heap, held, last, mutations,
    \* statement formatter (SpecSql)
    sqlIn, sqlOut,
    \* the generate command (SpecCli)
    cli, cpc, stdout, stderr, outfile, exitStatus,
    \* a formatter applied to a record sequence (SpecFmt)
    fmtIn, fmtOut

genVars == <<seed, schema, count, run, pc, gen, result, first>>
fieldVars == <<fspec, fctx, fout>>
regVars == <<heap, held, last, mutations>>
sqlVars == <<sqlIn, sqlOut>>
cliVars == <<cli, cpc, stdout, stderr, outfile, exitStatus>>
fmtVars == <<fmtIn, fmtOut>>
vars == <<genVars, fieldVars, regVars, sqlVars, cliVars, fmtVars>>
notGen == <<fieldVars, regVars, sqlVars, cliVars, fmtVars>>
notField == <<genVars, regVars, sqlVars, cliVars, fmtVars>>
notReg == <<genVars, fieldVars, sqlVars, cliVars, fmtVars>>
notSql == <<genVars, fieldVars, regVars, cliVars, fmtVars>>
notCli == <<genVars, fieldVars, regVars, sqlVars, fmtVars>>
notFmt == <<genVars, fieldVars, regVars, sqlVars, cliVars>>

----------------------------------------------------------------------------
\* Bounds of the model.

\* Largest record count a run is given.
MaxCount == 2
\* Seeds range over 1..MaxSeed (and None).
MaxSeed == 2
\* Number of distinct outputs of one draw from a random stream.
RandMod == 5
\* Number of caller mutations of a held schema that a behaviour contains.
MaxMutations == 2

----------------------------------------------------------------------------
\* Python values.

None == [t |-> "none"]
Bool(b) == [t |-> "bool", b |-> b]
IntV(n) == [t |-> "int", n |-> n]
Float(m, d) == [t |-> "float", m |-> m, d |-> d]
StrC(chunks) == [t |-> "str", s |-> chunks]
Str(x) == StrC(<<x>>)
List(items) == [t |-> "list", items |-> items]
Dict(pairs) == [t |-> "dict", pairs |-> pairs]

RECURSIVE Render(_)
\* The text of a sequence of chunks.
Render(chunks) ==
    IF chunks = <<>> THEN "" ELSE Head(chunks) \o Render(Tail(chunks))

Text(v) == Render(v.s)

IsStr(v) == v.t = "str"
IsDict(v) == v.t = "dict"

Keys(d) == [k \in 1..Len(d.pairs) |-> d.pairs[k][1]]
HasKey(d, key) == \E k \in 1..Len(d.pairs) : d.pairs[k][1] = key

\* dict.get(key, default)
Get(d, key, default) ==
    IF HasKey(d, key)
    THEN d.pairs[CHOOSE k \in 1..Len(d.pairs) : d.pairs[k][1] = key][2]
    ELSE default

\* d[key] = value on an insertion-ordered dict
SetItem(d, key, value) ==
    IF HasKey(d, key)
    THEN Dict([k \in 1..Len(d.pairs) |->
                 IF d.pairs[k][1] = key THEN <<key, value>> ELSE d.pairs[k]])
    ELSE Dict(Append(d.pairs, <<key, value>>))

\* bool(v)
Truthy(v) ==
    CASE v.t = "none" -> FALSE
      [] v.t = "bool" -> v.b
      [] v.t = "int" -> v.n # 0
      [] v.t = "float" -> v.m # 0
      [] v.t = "str" -> Text(v) # ""
      [] v.t = "list" -> v.items # <<>>
      [] v.t = "dict" -> v.pairs # <<>>

RECURSIVE PyRepr(_)
RECURSIVE ReprItems(_)
RECURSIVE ReprPairs(_)
\* repr(v), as chunks
PyRepr(v) ==
    CASE v.t = "none" -> <<"None">>
      [] v.t = "bool" -> IF v.b THEN <<"True">> ELSE <<"False">>
      [] v.t = "int" -> <<ToString(v.n)>>
      [] v.t = "float" -> <<ToString(v.m), "e-", ToString(v.d)>>
      [] v.t = "str" -> <<"'">> \o v.s \o <<"'">>
      [] v.t = "list" -> <<"[">> \o ReprItems(v.items) \o <<"]">>
      [] v.t = "dict" -> <<"{">> \o ReprPairs(v.pairs) \o <<"}">>
ReprItems(items) ==
    IF items = <<>> THEN <<>>
    ELSE PyRepr(Head(items))
         \o (IF Len(items) > 1 THEN <<", ">> ELSE <<>>)
         \o ReprItems(Tail(items))
ReprPairs(pairs) ==
    IF pairs = <<>> THEN <<>>
    ELSE <<"'", Head(pairs)[1], "': ">> \o PyRepr(Head(pairs)[2])
         \o (IF Len(pairs) > 1 THEN <<", ">> ELSE <<>>)
         \o ReprPairs(Tail(pairs))

\* str(v), as chunks: the f-string rendering of a value
PyStr(v) == IF v.t = "str" THEN v.s ELSE PyRepr(v)

\* A raised exception.
Raise(kind, msg) == [kind |-> kind, msg |-> msg]

----------------------------------------------------------------------------
\* The sources of values: Faker's shared random instance and the `random`
\* module (both pseudo-random, set by a seed), the operating system's entropy
\* (uuid.uuid4) and the clock (datetime.utcnow). A pseudo-random stream is
\* its seed state s and the number p of draws made; what a draw returns is a
\* function of the two.

Stream(s) == [s |-> s, p |-> 0]
Draw(st) == ((st.s * 7) + (st.p * 3)) % RandMod
Advance(st) == [st EXCEPT !.p = @ + 1]

\* Faker.seed(seed) / random.seed(seed)
Seeded(seedValue) == Stream(seedValue)

\* calls and top are logs kept for the properties: the specification of every
\* _generate_field invocation, and <<record index, field name>> of every
\* invocation made by generate_from_schema itself.
NoCtx == [fake |-> Stream(0), rand |-> Stream(0), os |-> Stream(0),
          clock |-> 0, calls |-> <<>>, top |-> <<>>]

\* Results of a call: a returned value or a raised exception, with the
\* context the call leaves.
Ok(val, ctx) == [ok |-> TRUE, val |-> val, ctx |-> ctx]
Err(e, ctx) == [ok |-> FALSE, err |-> e, ctx |-> ctx]

\* _type_map: the scalar generators that call a Faker provider and return
\* its string.
FakerTypes ==
    {"first_name", "last_name", "name", "user_name", "password",
     "email", "company_email", "phone",
     "street_address", "city", "state", "zipcode", "country", "address",
     "credit_card_number", "credit_card_provider", "credit_card_expire",
     "credit_card_security_code",
     "datetime", "date", "past_date", "future_date",
     "word", "sentence", "paragraph", "text",
     "ean13", "isbn13",
     "ipv4", "ipv6", "url", "domain", "mac_address",
     "company", "job_title"}

\* The keys of _type_map.
FieldTypes == FakerTypes \cup {"uuid", "iso8601", "timestamp", "integer", "boolean"}

\* The structured kinds _generate_field dispatches on.
StructuredTypes == {"integer", "decimal", "choice", "pattern", "list"}

\* self._type_map[name](): the generator's value and the stream it advanced.
TypeMapCall(name, ctx) ==
    CASE name = "uuid" ->
            Ok(StrC(<<"uuid-", ToString(Draw(ctx.os))>>),
               [ctx EXCEPT !.os = Advance(@)])
      [] name = "iso8601" ->
            Ok(StrC(<<"T", ToString(ctx.clock), "Z">>), ctx)
      [] name = "timestamp" ->
            Ok(IntV(ctx.clock), ctx)
      [] name = "integer" ->
            Ok(IntV(1 + (Draw(ctx.rand) % 1000)), [ctx EXCEPT !.rand = Advance(@)])
      [] name = "boolean" ->
            Ok(Bool(Draw(ctx.fake) % 2 = 1), [ctx EXCEPT !.fake = Advance(@)])
      [] OTHER ->
            Ok(StrC(<<name, "-", ToString(Draw(ctx.fake))>>),
               [ctx EXCEPT !.fake = Advance(@)])

IsIntLike(v) == v.t \in {"int", "bool"}
IntOf(v) == IF v.t = "bool" THEN (IF v.b THEN 1 ELSE 0) ELSE v.n

\* random.randint(a, b)
RandInt(a, b, ctx) ==
    IF ~(IsIntLike(a) /\ IsIntLike(b))
    THEN Err(Raise("TypeError", <<"randint: not an integer">>), ctx)
    ELSE IF IntOf(a) > IntOf(b)
    THEN Err(Raise("ValueError", <<"empty range for randrange()">>), ctx)
    ELSE Ok(IntV(IntOf(a) + (Draw(ctx.rand) % (IntOf(b) - IntOf(a) + 1))),
            [ctx EXCEPT !.rand = Advance(@)])

\* round(random.uniform(a, b), precision), as the integer m of m * 10^-d
\* (integer bounds; the draw is the fraction Draw / RandMod)
RandDecimal(a, b, precision, ctx) ==
    IF ~(IsIntLike(a) /\ IsIntLike(b))
    THEN Err(Raise("TypeError", <<"uniform: not a number">>), ctx)
    ELSE LET next == [ctx EXCEPT !.rand = Advance(@)]
             u == Draw(ctx.rand)
         IN  IF ~(IsIntLike(precision) \/ precision.t = "none")
             THEN Err(Raise("TypeError", <<"round: precision is not an integer">>), next)
             ELSE LET d == IF precision.t = "none" \/ IntOf(precision) < 0
                           THEN 0 ELSE IntOf(precision)
                      scale == 10 ^ d
                  IN  Ok(Float((IntOf(a) * scale)
                               + (((IntOf(b) - IntOf(a)) * scale * u) \div RandMod), d),
                         next)

\* random.choice(values) on a truthy value
RandChoice(values, ctx) ==
    CASE values.t = "list" ->
            Ok(values.items[(Draw(ctx.rand) % Len(values.items)) + 1],
               [ctx EXCEPT !.rand = Advance(@)])
      [] values.t = "str" ->
            Ok(Str(values.s[(Draw(ctx.rand) % Len(values.s)) + 1]),
               [ctx EXCEPT !.rand = Advance(@)])
      [] values.t = "dict" ->
            Err(Raise("KeyError", <<"choice: no integer key">>),
                [ctx EXCEPT !.rand = Advance(@)])
      [] OTHER ->
            Err(Raise("TypeError", <<"choice: object has no len()">>), ctx)

RECURSIVE Substitute(_, _, _, _)
\* One pass of Faker's numerify / lexify: each chunk equal to `placeholder`
\* becomes a drawn character, every other chunk stays.
Substitute(chunks, placeholder, prefix, st) ==
    IF chunks = <<>> THEN [s |-> <<>>, st |-> st]
    ELSE IF Head(chunks) = placeholder
    THEN LET rest == Substitute(Tail(chunks), placeholder, prefix, Advance(st))
         IN  [s |-> <<prefix \o ToString(Draw(st))>> \o rest.s, st |-> rest.st]
    ELSE LET rest == Substitute(Tail(chunks), placeholder, prefix, st)
         IN  [s |-> <<Head(chunks)>> \o rest.s, st |-> rest.st]

\* self.fake.bothify(pattern): '#' to a digit, then '?' to a letter
Bothify(pattern, ctx) ==
    IF pattern.t # "str"
    THEN Err(Raise("TypeError", <<"bothify: expected string">>), ctx)
    ELSE LET digits == Substitute(pattern.s, "#", "", ctx.fake)
             letters == Substitute(digits.s, "?", "x", digits.st)
         IN  Ok(StrC(letters.s), [ctx EXCEPT !.fake = letters.st])

----------------------------------------------------------------------------
\* The field resolver: TestDataGenerator._generate_field.

\* field_type == 'name' on a value of any type
StrEq(v, name) == v.t = "str" /\ Text(v) = name

\* A lookup that accepts every name.
InTypeMapAny(field_spec) == TRUE

\* field_spec in self._type_map
InTypeMap(field_spec) == Text(field_spec) \in FieldTypes

\* raise ValueError(f"Unknown field type: {field_type}")
UnknownFieldType(field_type, ctx) ==
    Err(Raise("ValueError", <<"Unknown field type: ">> \o PyStr(field_type)), ctx)

\* The last statement raising the error of the else branch above it.
InvalidAsUnknown(field_spec, ctx) == UnknownFieldType(field_spec, ctx)

\* raise ValueError(f"Invalid field specification: {field_spec}")
InvalidFieldSpec(field_spec, ctx) ==
    Err(Raise("ValueError", <<"Invalid field specification: ">> \o PyStr(field_spec)), ctx)

\* the 'integer' branch
GenInteger(field_spec, ctx) ==
    RandInt(Get(field_spec, "min", IntV(0)), Get(field_spec, "max", IntV(100)), ctx)

\* the 'decimal' branch
GenDecimal(field_spec, ctx) ==
    RandDecimal(Get(field_spec, "min", IntV(0)), Get(field_spec, "max", IntV(100)),
                Get(field_spec, "precision", IntV(2)), ctx)

\* random.choice(values) without the guard for an empty list.
GenChoiceUnguarded(field_spec, ctx) ==
    LET values == Get(field_spec, "values", List(<<>>))
    IN  IF Truthy(values) THEN RandChoice(values, ctx)
        ELSE Err(Raise("IndexError", <<"Cannot choose from an empty sequence">>), ctx)

\* the 'choice' branch: random.choice(values) if values else None
GenChoice(field_spec, ctx) ==
    LET values == Get(field_spec, "values", List(<<>>))
    IN  IF Truthy(values) THEN RandChoice(values, ctx) ELSE Ok(None, ctx)

\* the 'pattern' branch
GenPattern(field_spec, ctx) ==
    Bothify(Get(field_spec, "pattern", StrC(<<>>)), ctx)

\* range(count): the number of iterations, or -1 where range() raises
RangeLen(n) == IF ~IsIntLike(n) THEN -1 ELSE IF IntOf(n) < 0 THEN 0 ELSE IntOf(n)

RECURSIVE _generate_field(_, _)
RECURSIVE Comprehension(_, _, _, _)

\* [self._generate_field(item_spec) for _ in range(count)] with `todo`
\* iterations left and `done` the values collected so far; an exception
\* raised by an iteration ends the comprehension and is the result.
Comprehension(item_spec, todo, done, ctx) ==
    IF todo = 0 THEN Ok(List(done), ctx)
    ELSE LET r == _generate_field(item_spec, ctx)
         IN  IF r.ok
             THEN Comprehension(item_spec, todo - 1, Append(done, r.val), r.ctx)
             ELSE r

\* The list branch with range(count + 1).
GenListOneMore(field_spec, ctx) ==
    LET item_spec == Get(field_spec, "item", None)
        n == RangeLen(Get(field_spec, "count", IntV(3)))
    IN  IF n < 0
        THEN Err(Raise("TypeError", <<"range: count is not an integer">>), ctx)
        ELSE Comprehension(item_spec, n + 1, <<>>, ctx)

\* the 'list' branch
GenList(field_spec, ctx) ==
    LET item_spec == Get(field_spec, "item", None)
        n == RangeLen(Get(field_spec, "count", IntV(3)))
    IN  IF n < 0
        THEN Err(Raise("TypeError", <<"range: count is not an integer">>), ctx)
        ELSE Comprehension(item_spec, n, <<>>, ctx)

\* _generate_field(field_spec); ctx.calls logs the specification of every
\* invocation, nested ones included, in call order.
_generate_field(field_spec, ctx0) ==
    LET ctx == [ctx0 EXCEPT !.calls = Append(@, field_spec)]
    IN  IF IsStr(field_spec)
        THEN IF InTypeMap(field_spec)
             THEN TypeMapCall(Text(field_spec), ctx)
             ELSE UnknownFieldType(field_spec, ctx)
        ELSE IF IsDict(field_spec)
        THEN LET field_type == Get(field_spec, "type", None)
             IN  CASE StrEq(field_type, "integer") -> GenInteger(field_spec, ctx)
                   [] StrEq(field_type, "decimal") -> GenDecimal(field_spec, ctx)
                   [] StrEq(field_type, "choice") -> GenChoice(field_spec, ctx)
                   [] StrEq(field_type, "pattern") -> GenPattern(field_spec, ctx)
                   [] StrEq(field_type, "list") -> GenList(field_spec, ctx)
                   [] OTHER -> UnknownFieldType(field_type, ctx)
        ELSE InvalidFieldSpec(field_spec, ctx)

----------------------------------------------------------------------------
\* The schema generator: TestDataGenerator.generate_from_schema.

\* A record rebuilt at each field instead of extended.
RecordSetFresh(record, field_name, value) == Dict(<< <<field_name, value>> >>)

\* record[field_name] = value
RecordSet(record, field_name, value) == SetItem(record, field_name, value)

\* An exception caught around the field, the records built so far returned.
PropagateCaught(r, records, record) == Ok(List(records), r.ctx)

\* An exception raised while a record is being built leaves
\* generate_from_schema: nothing catches it, `records` and `record` are lost.
Propagate(r, records, record) == Err(r.err, r.ctx)

RECURSIVE FieldLoopReversed(_, _, _, _, _, _)
\* The loop over reversed(schema.items()).
FieldLoopReversed(pairs, j, records, record, i, ctx) ==
    IF j > Len(pairs) THEN Ok(record, ctx)
    ELSE LET pair == pairs[(Len(pairs) - j) + 1]
             r == _generate_field(pair[2],
                      [ctx EXCEPT !.top = Append(@, <<i, pair[1]>>)])
         IN  IF r.ok
             THEN FieldLoopReversed(pairs, j + 1, records,
                                    RecordSet(record, pair[1], r.val), i, r.ctx)
             ELSE Propagate(r, records, record)

RECURSIVE FieldLoop(_, _, _, _, _, _)
\* for field_name, field_spec in schema.items(): from field j of record i
FieldLoop(pairs, j, records, record, i, ctx) ==
    IF j > Len(pairs) THEN Ok(record, ctx)
    ELSE LET r == _generate_field(pairs[j][2],
                      [ctx EXCEPT !.top = Append(@, <<i, pairs[j][1]>>)])
         IN  IF r.ok
             THEN FieldLoop(pairs, j + 1, records,
                            RecordSet(record, pairs[j][1], r.val), i, r.ctx)
             ELSE Propagate(r, records, record)

RECURSIVE RecordLoop(_, _, _, _, _)
\* for _ in range(count): from record i, n records in all
RecordLoop(schema_, i, n, records, ctx) ==
    IF i >= n THEN Ok(List(records), ctx)
    ELSE IF ~IsDict(schema_)
    THEN Err(Raise("AttributeError", <<"object has no attribute 'items'">>), ctx)
    ELSE LET r == FieldLoop(schema_.pairs, 1, records, Dict(<<>>), i, ctx)
         IN  IF r.ok
             THEN RecordLoop(schema_, i + 1, n, Append(records, r.val), r.ctx)
             ELSE r

generate_from_schema(schema_, count_, ctx) ==
    IF RangeLen(count_) < 0
    THEN Err(Raise("TypeError", <<"range: count is not an integer">>), ctx)
    ELSE RecordLoop(schema_, 0, RangeLen(count_), <<>>, ctx)

\* What the caller gets: the returned value or the exception.
Outcome(r) == IF r.ok THEN [ok |-> TRUE, val |-> r.val] ELSE [ok |-> FALSE, err |-> r.err]

Pending == [pending |-> TRUE]

----------------------------------------------------------------------------
\* Generator runs (Spec): a process constructs TestDataGenerator(seed=seed)
\* and calls generate_from_schema(schema, count); then a second process does
\* the same with the same seed, schema and count.

SeedValues == {None} \cup {IntV(k) : k \in 1..MaxSeed}
\* States of an unseeded stream and of the operating system's entropy source.
EntropyStates == 0..MaxSeed
\* Readings of the clock.
ClockValues == 0..MaxSeed

Schemas ==
    { Dict(<< <<"id", Str("uuid")>>, <<"email", Str("email")>> >>),
      Dict(<< <<"name", Str("first_name")>>,
              <<"score", Dict(<< <<"type", Str("integer")>>, <<"min", IntV(0)>>,
                                 <<"max", IntV(3)>> >>)>>,
              <<"tags", Dict(<< <<"type", Str("list")>>, <<"item", Str("word")>>,
                                <<"count", IntV(2)>> >>)>> >>),
      Dict(<< <<"ts", Str("iso8601")>>, <<"n", Str("integer")>> >>),
      Dict(<< <<"t", Str("timestamp")>> >>),
      Dict(<< <<"a", Str("email")>>, <<"b", Str("not_a_type")>>,
              <<"c", Str("first_name")>> >>),
      Dict(<< <<"a", Dict(<< <<"type", Str("choice")>>,
                             <<"values", List(<<Str("x"), Str("y"), Str("z")>>)>> >>)>>,
              <<"b", Dict(<< <<"type", Str("list")>>, <<"item", Str("bogus")>>,
                             <<"count", IntV(1)>> >>)>> >>),
      Dict(<<>>),
      Dict(<< <<"username", Str("user_name")>>, <<"password", Str("password")>>,
              <<"email", Str("email")>> >>),
      Dict(<< <<"p", Dict(<< <<"type", Str("pattern")>>,
                             <<"pattern", StrC(<<"ID-", "#", "#", "?">>)>> >>)>>,
              <<"d", Dict(<< <<"type", Str("decimal")>>, <<"min", IntV(1)>>,
                             <<"max", IntV(10)>>, <<"precision", IntV(2)>> >>)>>,
              <<"flag", Str("boolean")>> >>),
      Dict(<< <<"first", Str("first_name")>>, <<"x", IntV(5)>> >>) }

GenIdle ==
    /\ seed = None /\ schema = Dict(<<>>) /\ count = 0 /\ run = 0
    /\ pc = "idle" /\ gen = NoCtx /\ result = Pending /\ first = Pending

GenInit ==
    /\ seed \in SeedValues
    /\ schema \in Schemas
    /\ count \in 0..MaxCount
    /\ run = 1
    /\ pc = "new"
    /\ gen = NoCtx
    /\ result = Pending
    /\ first = Pending

\* TestDataGenerator.__init__: seeds both streams when a seed is given;
\* otherwise they start from operating-system entropy.
Construct ==
    /\ pc = "new"
    /\ \E e \in EntropyStates, o \in EntropyStates, c \in ClockValues :
          gen' = [fake |-> IF seed = None THEN Stream(e) ELSE Seeded(seed.n),
                  rand |-> IF seed = None THEN Stream(e) ELSE Seeded(seed.n),
                  os |-> Stream(o), clock |-> c, calls |-> <<>>, top |-> <<>>]
    /\ pc' = "ready"
    /\ UNCHANGED <<seed, schema, count, run, result, first>>
    /\ UNCHANGED notGen

\* gen.generate_from_schema(schema, count)
Generate ==
    /\ pc = "ready"
    /\ result' = generate_from_schema(schema, IntV(count), gen)
    /\ gen' = result'.ctx
    /\ pc' = "done"
    /\ UNCHANGED <<seed, schema, count, run, first>>
    /\ UNCHANGED notGen

\* The second run: a new process, the same seed, schema and count.
SecondRun ==
    /\ pc = "done" /\ run = 1
    /\ first' = result
    /\ run' = 2
    /\ pc' = "new"
    /\ gen' = NoCtx
    /\ result' = Pending
    /\ UNCHANGED <<seed, schema, count>>
    /\ UNCHANGED notGen

FieldIdle == fspec = None /\ fctx = NoCtx /\ fout = Pending
RegIdle == heap = <<>> /\ held = None /\ last = Pending /\ mutations = 0
SqlIdle == sqlIn = None /\ sqlOut = Pending
CliIdle ==
    /\ cli = None /\ cpc = "idle" /\ stdout = <<>> /\ stderr = <<>>
    /\ outfile = None /\ exitStatus = None
FmtIdle == fmtIn = None /\ fmtOut = Pending

Init == GenInit /\ FieldIdle /\ RegIdle /\ SqlIdle /\ CliIdle /\ FmtIdle
Next == Construct \/ Generate \/ SecondRun
Spec == Init /\ [][Next]_vars

----------------------------------------------------------------------------
\* Properties of generator runs (Spec).

Done == pc = "done"

\* Whether resolving a specification raises. In _generate_field every raise
\* is decided by the specification alone, never by a drawn value, so the
\* context of the probe does not matter.
Resolves(field_spec) == _generate_field(field_spec, NoCtx).ok

\* Fields of the schema, by position, whose specification does not resolve.
FailingFields == {j \in 1..Len(schema.pairs) : ~Resolves(schema.pairs[j][2])}

\* C1: for a schema whose field specifications all resolve and a count >= 0,
\* generate_from_schema returns a list of exactly count records, and the keys
\* of every record are the schema's field names, each once, in the schema's
\* order; count = 0 returns the empty list.
C1_RecordsShape ==
    (Done /\ FailingFields = {}) =>
        /\ result.ok
        /\ result.val.t = "list"
        /\ Len(result.val.items) = count
        /\ \A k \in 1..Len(result.val.items) :
              /\ result.val.items[k].t = "dict"
              /\ Keys(result.val.items[k]) = Keys(schema)

C1_Witness ==
    /\ Done /\ result.ok /\ count = 2 /\ Len(schema.pairs) = 3
    /\ Len(result.val.items) = 2

\* C2: two runs constructed with the same seed that generate from the same
\* schema with the same count get identical outcomes.
C2_SameSeedSameRecords ==
    (Done /\ run = 2 /\ seed # None) => Outcome(result) = Outcome(first)

\* C3: if a field of the schema does not resolve (and count >= 1), then
\* generate_from_schema raises the error of the first such field, of the first
\* record; it returns no records, complete or partial; and the resolver was
\* invoked for the fields before it, in schema order, then for it, and for
\* nothing after.
C3_AllOrNothing ==
    (Done /\ count >= 1 /\ FailingFields # {}) =>
        LET j == CHOOSE x \in FailingFields : \A y \in FailingFields : x <= y
            top == result.ctx.top
        IN  /\ ~result.ok
            /\ "val" \notin DOMAIN result
            /\ result.err = _generate_field(schema.pairs[j][2], NoCtx).err
            /\ Len(top) = j
            /\ \A k \in 1..j : top[k] = <<0, schema.pairs[k][1]>>

C3_Witness ==
    /\ Done /\ count = 2 /\ ~result.ok
    /\ Len(result.ctx.top) = 2
    /\ Text(StrC(result.err.msg)) = "Unknown field type: not_a_type"

\* The top-level invocations of a complete run, in order: <<record, field>>
\* for record 0, 1, ..., n - 1 and, within a record, the schema's fields in
\* declared order.
ExpectedTop(schema_, n) ==
    LET m == Len(schema_.pairs)
    IN  [k \in 1..(n * m) |-> <<(k - 1) \div m, schema_.pairs[((k - 1) % m) + 1][1]>>]

IsPrefix(s, u) == Len(s) <= Len(u) /\ \A k \in 1..Len(s) : s[k] = u[k]

\* C13: generate_from_schema(schema, count) invokes the resolver at top level
\* once per (record, field) pair, all fields of a record in the schema's
\* order before any field of the next record: count * |schema| invocations on
\* success, and a prefix of that sequence when a field fails; and a second
\* run on the same schema and count makes the same invocations, nested ones
\* included, in the same order, whatever the streams hold.
C13_ResolutionOrder ==
    /\ Done =>
          /\ IsPrefix(result.ctx.top, ExpectedTop(schema, count))
          /\ result.ok =>
                /\ result.ctx.top = ExpectedTop(schema, count)
                /\ Len(result.ctx.top) = count * Len(schema.pairs)
    /\ (Done /\ run = 2) =>
          /\ result.ctx.top = first.ctx.top
          /\ result.ctx.calls = first.ctx.calls

\* Two records of three fields have been generated: six invocations, the
\* fourth for the first field of the second record.
C13_Witness ==
    /\ Done /\ result.ok /\ count = 2 /\ Len(schema.pairs) = 3
    /\ Len(result.ctx.top) = 6
    /\ result.ctx.top[3] = <<0, schema.pairs[3][1]>>
    /\ result.ctx.top[4] = <<1, schema.pairs[1][1]>>

----------------------------------------------------------------------------
\* The field resolver applied to one specification (SpecField): the
\* specification and the generator's streams are drawn in the initial state,
\* ResolveField applies _generate_field.

TypeOnly(name) == Dict(<< <<"type", Str(name)>> >>)
ChoiceOf(values) == Dict(<< <<"type", Str("choice")>>, <<"values", values>> >>)
ListOf(item, n) == Dict(<< <<"type", Str("list")>>, <<"item", item>>, <<"count", n>> >>)

ScalarSpecs ==
    {Str(n) : n \in {"email", "uuid", "integer", "boolean", "iso8601", "timestamp",
                     "not_a_type", "decimal", "list", "choice"}}

ChoiceSpecs ==
    {TypeOnly("choice")} \cup
    {ChoiceOf(v) : v \in {List(<<>>), List(<<Str("x")>>), List(<<IntV(200)>>),
                          List(<<None>>), List(<<Str("a"), Str("b"), Str("c")>>),
                          List(<<IntV(200), IntV(201), IntV(400), IntV(404), IntV(500)>>),
                          IntV(5), None}}

OtherStructuredSpecs ==
    { TypeOnly("integer"),
      Dict(<< <<"type", Str("integer")>>, <<"min", IntV(1)>>, <<"max", IntV(3)>> >>),
      Dict(<< <<"type", Str("integer")>>, <<"min", IntV(3)>>, <<"max", IntV(1)>> >>),
      TypeOnly("decimal"),
      Dict(<< <<"type", Str("decimal")>>, <<"min", IntV(1)>>, <<"max", IntV(10)>>,
              <<"precision", IntV(1)>> >>),
      TypeOnly("pattern"),
      Dict(<< <<"type", Str("pattern")>>, <<"pattern", StrC(<<"EMP-", "#", "#", "?">>)>> >>),
      Dict(<<>>),
      Dict(<< <<"min", IntV(1)>>, <<"max", IntV(3)>> >>),
      TypeOnly("email"), TypeOnly("bogus"), TypeOnly("uuid"),
      Dict(<< <<"type", IntV(5)>> >>),
      Dict(<< <<"type", None>> >>),
      Dict(<< <<"type", List(<<Str("list")>>)>> >>) }

ItemSpecs ==
    { Str("email"), Str("uuid"), Str("bogus"),
      ChoiceOf(List(<<Str("a"), Str("b")>>)),
      ListOf(Str("word"), IntV(2)),
      ListOf(Str("bogus"), IntV(1)),
      ListOf(TypeOnly("email"), IntV(0)),
      Dict(<< <<"type", Str("integer")>>, <<"min", IntV(3)>>, <<"max", IntV(1)>> >>),
      IntV(7), None, Bool(FALSE), List(<<Str("email")>>) }

ListCounts == {IntV(n) : n \in -1..MaxCount} \cup {Str("x")}

ListSpecs ==
    {ListOf(item, n) : item \in ItemSpecs, n \in ListCounts}
    \cup {Dict(<< <<"type", Str("list")>>, <<"item", item>> >>) : item \in ItemSpecs}
    \cup {Dict(<< <<"type", Str("list")>>, <<"count", n>> >>) : n \in ListCounts}
    \cup {TypeOnly("list")}

NonSpecs == {None, IntV(5), Bool(TRUE), Float(15, 1), List(<<>>), List(<<Str("email")>>)}

FieldSpecs == ScalarSpecs \cup ChoiceSpecs \cup OtherStructuredSpecs \cup ListSpecs \cup NonSpecs

FieldInit ==
    /\ fspec \in FieldSpecs
    /\ \E r \in EntropyStates, o \in EntropyStates :
          fctx = [fake |-> Stream(r), rand |-> Stream(r), os |-> Stream(o),
                  clock |-> 0, calls |-> <<>>, top |-> <<>>]
    /\ fout = Pending

\* self._generate_field(fspec)
ResolveField ==
    /\ fout = Pending
    /\ fout' = _generate_field(fspec, fctx)
    /\ UNCHANGED <<fspec, fctx>>
    /\ UNCHANGED notField

InitField == FieldInit /\ GenIdle /\ RegIdle /\ SqlIdle /\ CliIdle /\ FmtIdle
NextField == ResolveField
SpecField == InitField /\ [][NextField]_vars

----------------------------------------------------------------------------
\* Properties of the field resolver (SpecField).

Resolved == fout # Pending

\* The call raised ValueError("Unknown field type: ...").
IsUnknownFieldType(r) ==
    /\ ~r.ok
    /\ "val" \notin DOMAIN r
    /\ r.err.kind = "ValueError"
    /\ Head(r.err.msg) = "Unknown field type: "

NoOffender == [some |-> FALSE]
Offends(field_type) == [some |-> TRUE, type |-> field_type]

\* The cases the specification names: a scalar name absent from the generator
\* table, or a mapping whose `type` is missing or none of the five kinds.
DirectOffender(field_spec) ==
    IF IsStr(field_spec)
    THEN IF Text(field_spec) \in FieldTypes THEN NoOffender ELSE Offends(field_spec)
    ELSE IF IsDict(field_spec)
    THEN IF ~HasKey(field_spec, "type") THEN Offends(None)
         ELSE LET ty == Get(field_spec, "type", None)
              IN  IF IsStr(ty) /\ Text(ty) \in StructuredTypes
                  THEN NoOffender ELSE Offends(ty)
    ELSE NoOffender

\* Whether a mapping is a list specification that resolves its item at least
\* once: its count is absent or an integer >= 1.
IteratesItem(field_spec) ==
    /\ IsDict(field_spec)
    /\ StrEq(Get(field_spec, "type", None), "list")
    /\ \/ ~HasKey(field_spec, "count")
       \/ LET c == Get(field_spec, "count", None) IN IsIntLike(c) /\ IntOf(c) >= 1

RECURSIVE Offender(_)
\* The named cases, and the case of a list specification that resolves an item
\* which is, recursively, such a case.
Offender(field_spec) ==
    IF DirectOffender(field_spec).some THEN DirectOffender(field_spec)
    ELSE IF IteratesItem(field_spec) THEN Offender(Get(field_spec, "item", None))
    ELSE NoOffender

\* C6 as stated: for a string or mapping specification, _generate_field raises
\* the unknown-field-type error exactly when the specification is a scalar
\* name absent from the generator table or a mapping whose `type` is missing
\* or none of integer, decimal, choice, pattern, list.
C6_ExactlyDirectCases ==
    (Resolved /\ (IsStr(fspec) \/ IsDict(fspec))) =>
        (IsUnknownFieldType(fout) <=> DirectOffender(fspec).some)

\* C6 as amended: for a string or mapping specification, _generate_field
\* raises the unknown-field-type error exactly when the specification is one
\* of the named cases or is a list specification with an absent or integer
\* count >= 1 whose item is, recursively, such a specification; the message
\* names the offending type, and no value is returned.
C6_UnknownFieldType ==
    (Resolved /\ (IsStr(fspec) \/ IsDict(fspec))) =>
        /\ IsUnknownFieldType(fout) <=> Offender(fspec).some
        /\ Offender(fspec).some =>
              Render(fout.err.msg)
                  = "Unknown field type: " \o Render(PyStr(Offender(fspec).type))

C6_Witness ==
    /\ Resolved
    /\ fspec = TypeOnly("email")
    /\ ~fout.ok
    /\ Render(fout.err.msg) = "Unknown field type: email"

RECURSIVE AfterItems(_, _, _)
\* The context after k resolutions of item, one after the other, from ctx.
AfterItems(item, k, ctx) ==
    IF k = 0 THEN ctx ELSE _generate_field(item, AfterItems(item, k - 1, ctx)).ctx

IsListSpec(field_spec) ==
    IsDict(field_spec) /\ StrEq(Get(field_spec, "type", None), "list")

\* C9: for a list specification whose count is absent (then 3) or an integer
\* n >= 0: when n = 0 or the item resolves, the result is a list of exactly n
\* values, the k-th being what the k-th resolution of item returned, and item
\* was resolved n times and not once more; otherwise the result is the error
\* of the first resolution of item, and item was resolved once.
C9_ListResolvesItemCountTimes ==
    (Resolved /\ IsListSpec(fspec)
        /\ (HasKey(fspec, "count") =>
               (Get(fspec, "count", None).t = "int" /\ Get(fspec, "count", None).n >= 0))) =>
        LET n == IF HasKey(fspec, "count") THEN Get(fspec, "count", None).n ELSE 3
            item == IF HasKey(fspec, "item") THEN Get(fspec, "item", None) ELSE None
            entry == [fctx EXCEPT !.calls = Append(@, fspec)]
        IN  IF n = 0 \/ Resolves(item)
            THEN /\ fout.ok
                 /\ fout.val.t = "list"
                 /\ Len(fout.val.items) = n
                 /\ \A k \in 1..n :
                       fout.val.items[k]
                           = _generate_field(item, AfterItems(item, k - 1, entry)).val
                 /\ fout.ctx = AfterItems(item, n, entry)
            ELSE /\ ~fout.ok
                 /\ "val" \notin DOMAIN fout
                 /\ fout.err = _generate_field(item, entry).err
                 /\ fout.ctx = _generate_field(item, entry).ctx

C9_Witness ==
    /\ Resolved
    /\ fspec = ListOf(Str("uuid"), IntV(2))
    /\ fout.ok
    /\ Len(fout.val.items) = 2
    /\ fout.val.items[1] # fout.val.items[2]
    /\ fout.ctx.calls = <<fspec, Str("uuid"), Str("uuid")>>

IsChoiceSpec(field_spec) ==
    IsDict(field_spec) /\ StrEq(Get(field_spec, "type", None), "choice")

\* C10: for a choice specification whose `values` is a list or absent,
\* _generate_field does not raise: it returns None when the list is empty or
\* absent, x when the list is [x], and an element of the list when the list is
\* not empty.
C10_ChoiceNeverFails ==
    (Resolved /\ IsChoiceSpec(fspec)
        /\ (HasKey(fspec, "values") => Get(fspec, "values", None).t = "list")) =>
        LET values == IF HasKey(fspec, "values")
                      THEN Get(fspec, "values", None).items ELSE <<>>
        IN  /\ fout.ok
            /\ values = <<>> => fout.val = None
            /\ Len(values) = 1 => fout.val = values[1]
            /\ values # <<>> => \E k \in 1..Len(values) : fout.val = values[k]

C10_Witness ==
    /\ Resolved
    /\ fspec = ChoiceOf(List(<<Str("a"), Str("b"), Str("c")>>))
    /\ fout.ok
    /\ fout.val = Str("b")

\* The call raised ValueError("Invalid field specification: ...").
IsInvalidFieldSpec(r) ==
    /\ ~r.ok
    /\ "val" \notin DOMAIN r
    /\ r.err.kind = "ValueError"
    /\ Head(r.err.msg) = "Invalid field specification: "

\* Neither a string nor a mapping.
NoSpecShape(v) == ~IsStr(v) /\ ~IsDict(v)

\* C12 as stated: _generate_field of a specification that is neither a string
\* nor a mapping raises the invalid-field-specification error, which is not
\* the unknown-field-type error; and every list specification whose item is
\* missing or neither a string nor a mapping is rejected with that error.
C12_ListItemAlwaysRejected ==
    Resolved =>
        /\ NoSpecShape(fspec) =>
              IsInvalidFieldSpec(fout) /\ ~IsUnknownFieldType(fout)
        /\ (IsListSpec(fspec) /\ NoSpecShape(Get(fspec, "item", None))) =>
              IsInvalidFieldSpec(fout)

\* C12 as amended: _generate_field of a specification that is neither a
\* string nor a mapping raises the invalid-field-specification error naming
\* the specification, which is not the unknown-field-type error; and a list
\* specification whose count is absent or an integer >= 1 and whose item is
\* missing or neither a string nor a mapping is rejected with that error,
\* naming the item (None when missing).
C12_InvalidFieldSpec ==
    Resolved =>
        /\ NoSpecShape(fspec) =>
              /\ IsInvalidFieldSpec(fout) /\ ~IsUnknownFieldType(fout)
              /\ Render(fout.err.msg)
                    = "Invalid field specification: " \o Render(PyStr(fspec))
        /\ (IteratesItem(fspec) /\ NoSpecShape(Get(fspec, "item", None))) =>
              /\ IsInvalidFieldSpec(fout) /\ ~IsUnknownFieldType(fout)
              /\ Render(fout.err.msg)
                    = "Invalid field specification: "
                          \o Render(PyStr(Get(fspec, "item", None)))

\* A list specification without an item and with count 2 has been rejected.
C12_Witness ==
    /\ Resolved
    /\ fspec = Dict(<< <<"type", Str("list")>>, <<"count", IntV(2)>> >>)
    /\ IsInvalidFieldSpec(fout)
    /\ Render(fout.err.msg) = "Invalid field specification: None"

----------------------------------------------------------------------------
\* The template registry (SpecReg): TestDataGenerator.TEMPLATES is one dict
\* object per template, and one dict object per structured field
\* specification inside it. Objects live in `heap`, by name; a dict holds a
\* nested dict as a reference to it, so that a shallow copy shares it.

Ref(id) == [t |-> "ref", id |-> id]

Decimal(lo, hi) ==
    Dict(<< <<"type", Str("decimal")>>, <<"min", IntV(lo)>>, <<"max", IntV(hi)>>,
            <<"precision", IntV(2)>> >>)
Choice(values) == Dict(<< <<"type", Str("choice")>>, <<"values", List(values)>> >>)

\* TEMPLATES, as written
TEMPLATES ==
    << <<"user", Dict(<< <<"id", Str("uuid")>>, <<"first_name", Str("first_name")>>,
                         <<"last_name", Str("last_name")>>, <<"email", Str("email")>>,
                         <<"phone", Str("phone")>>, <<"created_at", Str("datetime")>> >>)>>,
       <<"address", Dict(<< <<"street", Str("street_address")>>, <<"city", Str("city")>>,
                            <<"state", Str("state")>>, <<"zip_code", Str("zipcode")>>,
                            <<"country", Str("country")>> >>)>>,
       <<"payment", Dict(<< <<"card_number", Str("credit_card_number")>>,
                            <<"card_type", Str("credit_card_provider")>>,
                            <<"expiry", Str("credit_card_expire")>>,
                            <<"cvv", Str("credit_card_security_code")>> >>)>>,
       <<"product", Dict(<< <<"id", Str("uuid")>>, <<"name", Str("word")>>,
                            <<"description", Str("sentence")>>,
                            <<"price", Decimal(1, 1000)>>,
                            <<"sku", Str("ean13")>>, <<"in_stock", Str("boolean")>> >>)>>,
       <<"order", Dict(<< <<"order_id", Str("uuid")>>, <<"customer_email", Str("email")>>,
                          <<"total", Decimal(10, 5000)>>,
                          <<"status", Choice(<<Str("pending"), Str("processing"),
                                               Str("shipped"), Str("delivered"),
                                               Str("cancelled")>>)>>,
                          <<"created_at", Str("datetime")>> >>)>>,
       <<"api_response", Dict(<< <<"request_id", Str("uuid")>>,
                                 <<"timestamp", Str("iso8601")>>,
                                 <<"status_code", Choice(<<IntV(200), IntV(201), IntV(400),
                                                           IntV(404), IntV(500)>>)>>,
                                 <<"latency_ms", Dict(<< <<"type", Str("integer")>>,
                                                         <<"min", IntV(10)>>,
                                                         <<"max", IntV(2000)>> >>)>> >>)>>,
       <<"login", Dict(<< <<"username", Str("user_name")>>, <<"password", Str("password")>>,
                          <<"email", Str("email")>> >>)>>,
       <<"employee", Dict(<< <<"employee_id",
                               Dict(<< <<"type", Str("pattern")>>,
                                       <<"pattern", StrC(<<"EMP-", "#", "#", "#", "#">>)>> >>)>>,
                             <<"first_name", Str("first_name")>>,
                             <<"last_name", Str("last_name")>>,
                             <<"email", Str("company_email")>>,
                             <<"department", Choice(<<Str("Engineering"), Str("QA"),
                                                      Str("Product"), Str("Design"),
                                                      Str("HR"), Str("Finance")>>)>>,
                             <<"hire_date", Str("past_date")>>,
                             <<"salary", Decimal(50000, 200000)>> >>)>> >>

\* self.TEMPLATES.keys(), in order
TemplateNames == [k \in 1..Len(TEMPLATES) |-> TEMPLATES[k][1]]
NameSet == {TemplateNames[k] : k \in 1..Len(TemplateNames)}
\* The schema of a template, as written.
Written(name) == Get(Dict(TEMPLATES), name, None)

NestedId(name, key) == name \o "." \o key

\* The objects the class body creates.
Heap0 ==
    LET nested == UNION {{<<n, Written(n).pairs[k]>> : k \in 1..Len(Written(n).pairs)}
                            : n \in NameSet}
        inner == {x \in nested : IsDict(x[2][2])}
        ids == NameSet \cup {NestedId(x[1], x[2][1]) : x \in inner} \cup {"copy"}
    IN  [id \in ids |->
            IF id = "copy" THEN None
            ELSE IF id \in NameSet
            THEN Dict([k \in 1..Len(Written(id).pairs) |->
                         LET pr == Written(id).pairs[k]
                         IN  IF IsDict(pr[2]) THEN <<pr[1], Ref(NestedId(id, pr[1]))>>
                             ELSE pr])
            ELSE (CHOOSE x \in inner : NestedId(x[1], x[2][1]) = id)[2][2]]

RECURSIVE Deref(_, _)
\* The value a reference stands for, nested dicts expanded.
Deref(v, h) ==
    IF v.t = "ref" THEN Deref(h[v.id], h)
    ELSE IF v.t = "dict"
    THEN Dict([k \in 1..Len(v.pairs) |-> <<v.pairs[k][1], Deref(v.pairs[k][2], h)>>])
    ELSE v

RECURSIVE Join(_, _)
\* sep.join(names), as chunks
Join(names, sep) ==
    IF names = <<>> THEN <<>>
    ELSE IF Len(names) = 1 THEN <<names[1]>>
    ELSE <<names[1], sep>> \o Join(Tail(names), sep)

\* dict.copy(): a new dict with the same values, nested dicts shared
ShallowCopy(d) == Dict(d.pairs)

\* get_template_schema(template_name) on heap h: the exception, or the new
\* dict (written to "copy") and the schema it shows
get_template_schema(template_name, h) ==
    IF template_name \notin NameSet
    THEN [ok |-> FALSE,
          err |-> Raise("ValueError", <<"Unknown template: ", template_name>>),
          heap |-> h]
    ELSE LET h2 == [h EXCEPT !["copy"] = ShallowCopy(h[template_name])]
         IN  [ok |-> TRUE, val |-> Ref("copy"), heap |-> h2]

\* generate(template_name, count) on heap h with generator context ctx
generate(template_name, count_, h, ctx) ==
    IF template_name \notin NameSet
    THEN Err(Raise("ValueError",
                   <<"Unknown template: ", template_name, ". Available: ">>
                       \o Join(TemplateNames, ", ")), ctx)
    ELSE generate_from_schema(Deref(Ref(template_name), h), count_, ctx)

\* TestDataGenerator(seed=1), as each command constructs one
FreshGen ==
    [fake |-> Seeded(1), rand |-> Seeded(1), os |-> Stream(0), clock |-> 0,
     calls |-> <<>>, top |-> <<>>]

\* Names the calls are made with, keys and values a caller writes.
CallNames == {"product", "order", "login", "bogus"}
NestedKeys == {"max", "values"}
MutValues == {IntV(5)}

RegInit == heap = Heap0 /\ held = None /\ last = Pending /\ mutations = 0

ListTemplates ==
    /\ heap # <<>>
    /\ last' = [op |-> "list_templates", ok |-> TRUE,
                val |-> List([k \in 1..Len(TemplateNames) |-> Str(TemplateNames[k])])]
    /\ UNCHANGED <<heap, held, mutations>>
    /\ UNCHANGED notReg

GetTemplateSchema ==
    /\ heap # <<>>
    /\ \E name \in CallNames :
          LET r == get_template_schema(name, heap)
          IN  /\ heap' = r.heap
              /\ held' = IF r.ok THEN r.val ELSE held
              /\ last' = IF r.ok
                         THEN [op |-> "get_template_schema", name |-> name, ok |-> TRUE,
                               schema |-> Deref(r.val, r.heap)]
                         ELSE [op |-> "get_template_schema", name |-> name, ok |-> FALSE,
                               err |-> r.err]
    /\ UNCHANGED mutations
    /\ UNCHANGED notReg

GenerateCall ==
    /\ heap # <<>>
    /\ \E name \in CallNames :
          LET r == generate(name, IntV(1), heap, FreshGen)
          IN  last' = IF name \in NameSet
                      THEN [op |-> "generate", name |-> name, ok |-> r.ok,
                            out |-> Outcome(r), schema |-> Deref(Ref(name), heap)]
                      ELSE [op |-> "generate", name |-> name, ok |-> FALSE, err |-> r.err]
    /\ UNCHANGED <<heap, held, mutations>>
    /\ UNCHANGED notReg

\* generate_from_schema on the schema the caller holds
GenerateFromHeld ==
    /\ held # None
    /\ LET r == generate_from_schema(Deref(held, heap), IntV(1), FreshGen)
       IN  last' = [op |-> "generate_from_schema", ok |-> r.ok, out |-> Outcome(r)]
    /\ UNCHANGED <<heap, held, mutations>>
    /\ UNCHANGED notReg

\* The caller writes schema[field] = value on the schema it holds.
SetTop ==
    /\ held # None
    /\ mutations < MaxMutations
    /\ \E k \in 1..Len(heap[held.id].pairs), v \in MutValues :
          heap' = [heap EXCEPT ![held.id] = SetItem(@, heap[held.id].pairs[k][1], v)]
    /\ mutations' = mutations + 1
    /\ UNCHANGED <<held, last>>
    /\ UNCHANGED notReg

\* The caller writes schema[field][key] = value on the schema it holds.
SetNested ==
    /\ held # None
    /\ mutations < MaxMutations
    /\ \E k \in 1..Len(heap[held.id].pairs), key \in NestedKeys, v \in MutValues :
          /\ heap[held.id].pairs[k][2].t = "ref"
          /\ heap' = [heap EXCEPT ![heap[held.id].pairs[k][2].id] = SetItem(@, key, v)]
    /\ mutations' = mutations + 1
    /\ UNCHANGED <<held, last>>
    /\ UNCHANGED notReg

InitReg == RegInit /\ GenIdle /\ FieldIdle /\ SqlIdle /\ CliIdle /\ FmtIdle
NextReg ==
    \/ ListTemplates \/ GetTemplateSchema \/ GenerateCall \/ GenerateFromHeld
    \/ SetTop \/ SetNested
SpecReg == InitReg /\ [][NextReg]_vars

----------------------------------------------------------------------------
\* Properties of the template registry (SpecReg).

\* C4: whatever calls were made and whatever a caller wrote into a schema that
\* get_template_schema returned, the registry holds every template's schema as
\* written, and get_template_schema and generate see that schema.
C4_RegistryImmutable ==
    /\ \A n \in NameSet : Deref(Ref(n), heap) = Written(n)
    /\ (last # Pending /\ last.op \in {"get_template_schema", "generate"}
            /\ last.name \in NameSet) =>
          last.schema = Written(last.name)

\* C5: get_template_schema raises for a name that is no template, with a
\* message that starts "Unknown template" and lists every template name; for a
\* template's name it returns a schema with that template's fields.
C5_UnknownTemplateListsNames ==
    (last # Pending /\ last.op = "get_template_schema") =>
        IF last.name \in NameSet
        THEN last.ok /\ Keys(last.schema) = Keys(Written(last.name))
        ELSE /\ ~last.ok
             /\ Head(last.err.msg) = "Unknown template: "
             /\ \A n \in NameSet : \E k \in 1..Len(last.err.msg) : last.err.msg[k] = n

----------------------------------------------------------------------------
\* The statement formatter: SQLFormatter.

RECURSIVE ReplaceChunk(_, _, _)
\* str.replace(old, new) where old is one character
ReplaceChunk(chunks, old, new) ==
    IF chunks = <<>> THEN <<>>
    ELSE (IF Head(chunks) = old THEN <<new>> ELSE <<Head(chunks)>>)
         \o ReplaceChunk(Tail(chunks), old, new)

RECURSIVE JsonDumps(_)
RECURSIVE JsonItems(_)
RECURSIVE JsonPairs(_)
\* json.dumps(value), as chunks
JsonDumps(v) ==
    CASE v.t = "none" -> <<"null">>
      [] v.t = "bool" -> IF v.b THEN <<"true">> ELSE <<"false">>
      [] v.t = "int" -> <<ToString(v.n)>>
      [] v.t = "float" -> <<ToString(v.m), "e-", ToString(v.d)>>
      [] v.t = "str" ->
            <<"\"">> \o ReplaceChunk(ReplaceChunk(v.s, "\\", "\\\\"), "\"", "\\\"")
                \o <<"\"">>
      [] v.t = "list" -> <<"[">> \o JsonItems(v.items) \o <<"]">>
      [] v.t = "dict" -> <<"{">> \o JsonPairs(v.pairs) \o <<"}">>
JsonItems(items) ==
    IF items = <<>> THEN <<>>
    ELSE JsonDumps(Head(items))
         \o (IF Len(items) > 1 THEN <<",", " ">> ELSE <<>>)
         \o JsonItems(Tail(items))
JsonPairs(pairs) ==
    IF pairs = <<>> THEN <<>>
    ELSE <<"\"", Head(pairs)[1], "\"", ":", " ">> \o JsonDumps(Head(pairs)[2])
         \o (IF Len(pairs) > 1 THEN <<",", " ">> ELSE <<>>)
         \o JsonPairs(Tail(pairs))

\* isinstance(value, bool); isinstance(value, (int, float)), which holds of a
\* bool too; isinstance(value, (list, dict))
IsInstanceBool(v) == v.t = "bool"
IsInstanceNumber(v) == v.t \in {"int", "float", "bool"}
IsInstanceListOrDict(v) == v.t \in {"list", "dict"}

\* _format_value with the numeric test before the boolean test.
FormatValueNumberFirst(value) ==
    IF value.t = "none" THEN <<"NULL">>
    ELSE IF IsInstanceNumber(value) THEN PyStr(value)
    ELSE IF IsInstanceBool(value) THEN (IF value.b THEN <<"TRUE">> ELSE <<"FALSE">>)
    ELSE IF IsInstanceListOrDict(value) THEN <<"'">> \o JsonDumps(value) \o <<"'">>
    ELSE <<"'">> \o ReplaceChunk(PyStr(value), "'", "''") \o <<"'">>

\* SQLFormatter._format_value
_format_value(value) ==
    IF value.t = "none" THEN <<"NULL">>
    ELSE IF IsInstanceBool(value) THEN (IF value.b THEN <<"TRUE">> ELSE <<"FALSE">>)
    ELSE IF IsInstanceNumber(value) THEN PyStr(value)
    ELSE IF IsInstanceListOrDict(value) THEN <<"'">> \o JsonDumps(value) \o <<"'">>
    ELSE <<"'">> \o ReplaceChunk(PyStr(value), "'", "''") \o <<"'">>

\* The grave accent U+0060 that quotes a MySQL identifier: a TLA+ string cannot
\* hold the character, this chunk stands for it.
GraveAccent == "<U+0060>"

\* SQLFormatter._quote_identifier
_quote_identifier(dialect, identifier) ==
    IF dialect = "mysql" THEN <<GraveAccent, identifier, GraveAccent>>
    ELSE IF dialect = "postgresql" THEN <<"\"", identifier, "\"">>
    ELSE <<identifier>>

RECURSIVE JoinChunks(_, _)
\* sep.join(parts), each part a chunk sequence
JoinChunks(parts, sep) ==
    IF parts = <<>> THEN <<>>
    ELSE IF Len(parts) = 1 THEN parts[1]
    ELSE parts[1] \o <<sep>> \o JoinChunks(Tail(parts), sep)

\* The statement of one row.
Statement(row, columns, table_name, dialect) ==
    <<"INSERT INTO ">> \o _quote_identifier(dialect, table_name) \o <<" (">>
        \o JoinChunks([k \in 1..Len(columns) |-> _quote_identifier(dialect, columns[k])], ", ")
        \o <<") VALUES (">>
        \o JoinChunks([k \in 1..Len(columns) |-> _format_value(Get(row, columns[k], None))], ", ")
        \o <<");">>

\* SQLFormatter(table_name, dialect).format(data)
SqlFormat(data, table_name, dialect) ==
    IF data = <<>> THEN <<>>
    ELSE LET columns == Keys(data[1])
         IN  JoinChunks([k \in 1..Len(data) |->
                            Statement(data[k], columns, table_name, dialect)], "\n")

\* Inputs of the formatter.
OBrien == StrC(<<"O", "'", "B", "r", "i", "e", "n">>)
SqlValues ==
    {None, Bool(TRUE), Bool(FALSE), IntV(0), IntV(42), Float(15, 1),
     OBrien, Str("plain"), StrC(<<"'", "'">>),
     List(<<IntV(1), OBrien>>), Dict(<< <<"k", None>> >>)}
Row(a, b, c) == Dict(<< <<"name", a>>, <<"active", b>>, <<"score", c>> >>)
SqlData ==
    {<<>>}
    \cup {<<Row(a, b, c)>> : a \in SqlValues, b \in SqlValues, c \in SqlValues}
    \cup {<<Row(a, Bool(TRUE), None), Row(b, Bool(FALSE), IntV(42))>> :
             a \in SqlValues, b \in SqlValues}
    \cup {<<Row(OBrien, Bool(TRUE), None),
            Dict(<< <<"score", IntV(0)>>, <<"name", Str("plain")>> >>)>>}
Dialects == {"standard", "mysql", "postgresql"}

SqlInit ==
    /\ \E data \in SqlData, dialect \in Dialects, table_name \in {"t", "test_data"} :
          sqlIn = [data |-> data, table_name |-> table_name, dialect |-> dialect]
    /\ sqlOut = Pending

FormatSql ==
    /\ sqlOut = Pending
    /\ sqlIn # None
    /\ sqlOut' = [text |-> SqlFormat(sqlIn.data, sqlIn.table_name, sqlIn.dialect)]
    /\ UNCHANGED sqlIn
    /\ UNCHANGED notSql

InitSql == SqlInit /\ GenIdle /\ FieldIdle /\ RegIdle /\ CliIdle /\ FmtIdle
NextSql == FormatSql
SpecSql == InitSql /\ [][NextSql]_vars

----------------------------------------------------------------------------
\* Properties of the statement formatter (SpecSql).

Formatted == sqlOut # Pending

RECURSIVE DoubledQuotes(_)
\* The characters of a string, every single quote written twice, as text.
DoubledQuotes(chunks) ==
    IF chunks = <<>> THEN ""
    ELSE (IF Head(chunks) = "'" THEN "''" ELSE Head(chunks)) \o DoubledQuotes(Tail(chunks))

\* The literal the rules give a value, in their precedence.
LiteralText(v) ==
    CASE v.t = "none" -> "NULL"
      [] v.t = "bool" -> IF v.b THEN "TRUE" ELSE "FALSE"
      [] v.t = "int" -> ToString(v.n)
      [] v.t = "float" -> ToString(v.m) \o "e-" \o ToString(v.d)
      [] v.t \in {"list", "dict"} -> "'" \o Render(JsonDumps(v)) \o "'"
      [] v.t = "str" -> "'" \o DoubledQuotes(v.s) \o "'"

RECURSIVE CommaList(_)
CommaList(texts) ==
    IF texts = <<>> THEN ""
    ELSE IF Len(texts) = 1 THEN texts[1]
    ELSE texts[1] \o ", " \o CommaList(Tail(texts))

\* INSERT INTO <target> (<columns in field order>) VALUES (<literals>);
StatementText(row, target, dialect) ==
    "INSERT INTO " \o Render(_quote_identifier(dialect, target)) \o " ("
        \o CommaList([k \in 1..Len(row.pairs) |->
                         Render(_quote_identifier(dialect, row.pairs[k][1]))])
        \o ") VALUES ("
        \o CommaList([k \in 1..Len(row.pairs) |-> LiteralText(row.pairs[k][2])])
        \o ");"

RECURSIVE Lines(_)
Lines(texts) ==
    IF texts = <<>> THEN ""
    ELSE IF Len(texts) = 1 THEN texts[1]
    ELSE texts[1] \o "\n" \o Lines(Tail(texts))

ExampleRow == Row(OBrien, Bool(TRUE), None)

\* C8: for records that share their fields, the output is one statement per
\* record, INSERT INTO <target> (<columns in field order>) VALUES (<literals>);
\* where a literal is NULL for None, TRUE or FALSE for a boolean, the bare
\* numeral for another number, the single-quoted JSON text for a list or a
\* mapping, and otherwise the single-quoted string with every single quote
\* doubled; and the record {name: "O'Brien", active: true, score: null} with
\* the unquoted dialect and target t gives exactly the statement of the
\* specification.
C8_StatementLiterals ==
    (Formatted /\ sqlIn.data # <<>>
        /\ \A k \in 1..Len(sqlIn.data) : Keys(sqlIn.data[k]) = Keys(sqlIn.data[1])) =>
        /\ Render(sqlOut.text)
              = Lines([k \in 1..Len(sqlIn.data) |->
                          StatementText(sqlIn.data[k], sqlIn.table_name, sqlIn.dialect)])
        /\ (sqlIn.data = <<ExampleRow>> /\ sqlIn.dialect = "standard"
                /\ sqlIn.table_name = "t") =>
              Render(sqlOut.text)
                  = "INSERT INTO t (name, active, score) VALUES ('O''Brien', TRUE, NULL);"

C8_Witness ==
    /\ Formatted
    /\ sqlIn = [data |-> <<ExampleRow>>, table_name |-> "t", dialect |-> "standard"]
    /\ Render(sqlOut.text)
          = "INSERT INTO t (name, active, score) VALUES ('O''Brien', TRUE, NULL);"

----------------------------------------------------------------------------
\* The other formatters and get_formatter.

RECURSIVE Spaces(_)
Spaces(n) == IF n <= 0 THEN "" ELSE " " \o Spaces(n - 1)

RECURSIVE JsonIndent(_, _, _)
RECURSIVE JsonIndentItems(_, _, _)
RECURSIVE JsonIndentPairs(_, _, _)
\* json.dumps(value, indent=indent), as chunks, at nesting depth `level`
JsonIndent(v, indent, level) ==
    CASE v.t = "list" ->
            IF v.items = <<>> THEN <<"[]">>
            ELSE <<"[", "\n">> \o JsonIndentItems(v.items, indent, level + 1)
                 \o <<"\n", Spaces(indent * level), "]">>
      [] v.t = "dict" ->
            IF v.pairs = <<>> THEN <<"{}">>
            ELSE <<"{", "\n">> \o JsonIndentPairs(v.pairs, indent, level + 1)
                 \o <<"\n", Spaces(indent * level), "}">>
      [] OTHER -> JsonDumps(v)
JsonIndentItems(items, indent, level) ==
    IF items = <<>> THEN <<>>
    ELSE <<Spaces(indent * level)>> \o JsonIndent(Head(items), indent, level)
         \o (IF Len(items) > 1 THEN <<",", "\n">> ELSE <<>>)
         \o JsonIndentItems(Tail(items), indent, level)
JsonIndentPairs(pairs, indent, level) ==
    IF pairs = <<>> THEN <<>>
    ELSE <<Spaces(indent * level), "\"", Head(pairs)[1], "\"", ":", " ">>
         \o JsonIndent(Head(pairs)[2], indent, level)
         \o (IF Len(pairs) > 1 THEN <<",", "\n">> ELSE <<>>)
         \o JsonIndentPairs(Tail(pairs), indent, level)

\* JSONFormatter(indent, single_object).format(data)
JsonFormat(data, indent, single_object) ==
    IF single_object /\ Len(data) = 1
    THEN JsonIndent(data[1], indent, 0)
    ELSE JsonIndent(List(data), indent, 0)

\* CSVFormatter._flatten_value, then the text csv writes for the value
CsvText(value) ==
    CASE value.t \in {"list", "dict"} -> JsonDumps(value)
      [] value.t = "none" -> <<>>
      [] OTHER -> PyStr(value)

\* One field as csv.QUOTE_MINIMAL writes it.
CsvField(chunks, delimiter) ==
    IF \E k \in 1..Len(chunks) : chunks[k] \in {delimiter, "\"", "\n", "\r", "\r\n"}
    THEN <<"\"">> \o ReplaceChunk(chunks, "\"", "\"\"") \o <<"\"">>
    ELSE chunks

\* One line of the writer; a row of one empty field is written as "".
CsvLine(fields, delimiter) ==
    IF Len(fields) = 1 /\ Render(fields[1]) = "" THEN <<"\"", "\"", "\r\n">>
    ELSE JoinChunks([k \in 1..Len(fields) |-> CsvField(fields[k], delimiter)], delimiter)
         \o <<"\r\n">>

IsBlank(chunk) == chunk \in {"", " ", "\n", "\r", "\r\n", "\t"}

RECURSIVE LStrip(_)
LStrip(chunks) ==
    IF chunks # <<>> /\ IsBlank(Head(chunks)) THEN LStrip(Tail(chunks)) ELSE chunks
RECURSIVE RStrip(_)
RStrip(chunks) ==
    IF chunks # <<>> /\ IsBlank(chunks[Len(chunks)])
    THEN RStrip(SubSeq(chunks, 1, Len(chunks) - 1)) ELSE chunks
\* str.strip()
Strip(chunks) == RStrip(LStrip(chunks))

RECURSIVE Concat(_)
Concat(parts) == IF parts = <<>> THEN <<>> ELSE Head(parts) \o Concat(Tail(parts))

\* The writer part of CSVFormatter.format, for data with a first row: the
\* text, or the ValueError of DictWriter for a row with a key the first row
\* has not
CsvWrite(data, delimiter, include_header) ==
    LET fieldnames == Keys(data[1])
        names == {fieldnames[k] : k \in 1..Len(fieldnames)}
        extra(row) == \E k \in 1..Len(row.pairs) : row.pairs[k][1] \notin names
        line(row) ==
            CsvLine([k \in 1..Len(fieldnames) |->
                        IF HasKey(row, fieldnames[k])
                        THEN CsvText(Get(row, fieldnames[k], None)) ELSE <<>>],
                    delimiter)
        header == IF include_header
                  THEN CsvLine([k \in 1..Len(fieldnames) |-> <<fieldnames[k]>>],
                               delimiter)
                  ELSE <<>>
    IN  IF \E k \in 1..Len(data) : extra(data[k])
        THEN [ok |-> FALSE,
              err |-> Raise("ValueError", <<"dict contains fields not in fieldnames">>)]
        ELSE [ok |-> TRUE,
              val |-> Strip(header \o Concat([k \in 1..Len(data) |-> line(data[k])]))]

\* CSVFormatter.format without its first two lines: data[0] of an empty list
CsvFormatUnguarded(data, delimiter, include_header) ==
    IF data = <<>>
    THEN [ok |-> FALSE, err |-> Raise("IndexError", <<"list index out of range">>)]
    ELSE CsvWrite(data, delimiter, include_header)

\* CSVFormatter(delimiter, include_header).format(data)
CsvFormat(data, delimiter, include_header) ==
    IF data = <<>> THEN [ok |-> TRUE, val |-> <<>>]
    ELSE CsvWrite(data, delimiter, include_header)

RECURSIVE YamlValue(_, _)
RECURSIVE YamlItems(_, _)
RECURSIVE YamlPairs(_, _, _)
\* yaml.dump(value, default_flow_style=False, sort_keys=False): the text that
\* follows a key or a dash, with the lines of a nested collection
YamlValue(v, level) ==
    CASE v.t = "none" -> <<"null", "\n">>
      [] v.t = "bool" -> <<IF v.b THEN "true" ELSE "false", "\n">>
      [] v.t = "list" ->
            IF v.items = <<>> THEN <<"[]", "\n">> ELSE <<"\n">> \o YamlItems(v.items, level)
      [] v.t = "dict" ->
            IF v.pairs = <<>> THEN <<"{}", "\n">>
            ELSE <<"\n">> \o YamlPairs(v.pairs, level + 1, FALSE)
      [] OTHER -> PyStr(v) \o <<"\n">>
YamlItems(items, level) ==
    IF items = <<>> THEN <<>>
    ELSE (IF Head(items).t = "dict" /\ Head(items).pairs # <<>>
          THEN <<Spaces(2 * level), "- ">> \o YamlPairs(Head(items).pairs, level + 1, TRUE)
          ELSE <<Spaces(2 * level), "- ">> \o YamlValue(Head(items), level + 1))
         \o YamlItems(Tail(items), level)
YamlPairs(pairs, level, inline) ==
    IF pairs = <<>> THEN <<>>
    ELSE (IF inline THEN <<>> ELSE <<Spaces(2 * level)>>)
         \o <<Head(pairs)[1], ":">>
         \o (IF Head(pairs)[2].t \in {"list", "dict"} /\ Truthy(Head(pairs)[2])
             THEN <<>> ELSE <<" ">>)
         \o YamlValue(Head(pairs)[2], level)
         \o YamlPairs(Tail(pairs), level, FALSE)

\* YAMLFormatter().format(data): ImportError when PyYAML is not installed
YamlFormat(data, yaml_installed) ==
    IF ~yaml_installed
    THEN [ok |-> FALSE,
          err |-> Raise("ImportError", <<"PyYAML is required for YAML output. ",
                                         "Install with: pip install pyyaml">>)]
    ELSE [ok |-> TRUE,
          val |-> IF data = <<>> THEN <<"[]", "\n">> ELSE YamlItems(data, 0)]

FormatNames == <<"json", "csv", "sql", "yaml">>

\* get_formatter(format_name, **kwargs).format(data); kwargs holds what the
\* command passes, the formatters' defaults stand for the rest
FormatWith(format_name, kwargs, data, yaml_installed) ==
    CASE format_name = "json" ->
            [ok |-> TRUE, val |-> JsonFormat(data, kwargs.indent, kwargs.single_object)]
      [] format_name = "csv" -> CsvFormat(data, ",", TRUE)
      [] format_name = "sql" ->
            [ok |-> TRUE, val |-> SqlFormat(data, kwargs.table_name, kwargs.dialect)]
      [] format_name = "yaml" -> YamlFormat(data, yaml_installed)
      [] OTHER ->
            [ok |-> FALSE,
             err |-> Raise("ValueError", <<"Unknown format: ", format_name, ". Available: ">>
                                             \o Join(FormatNames, ", "))]

----------------------------------------------------------------------------
\* The generate command (SpecCli): cli.generate, in steps. `cli` holds the
\* options of the invocation, what the environment provides, and the locals
\* gen, data_schema, data and result.

\* The text of a schema literal: JSON text of a value, text that is no JSON, or
\* the empty string.
JsonText(v) == [kind |-> "json", v |-> v]
Garbage == [kind |-> "garbage"]
EmptyText == [kind |-> "empty"]

\* json.loads(text) / json.load(f)
json_loads(text) ==
    IF text.kind = "json" THEN [ok |-> TRUE, val |-> text.v]
    ELSE [ok |-> FALSE,
          err |-> Raise("JSONDecodeError", <<"Expecting value: line 1 column 1 (char 0)">>)]

\* The except clauses of generate, in order (JSONDecodeError is a ValueError),
\* each followed by sys.exit(1), returning exit status 0 instead.
HandlerNoExit(e) ==
    [msg |-> CASE e.kind = "JSONDecodeError" -> <<"Error parsing JSON schema: ">> \o e.msg
               [] e.kind = "ValueError" -> <<"Error: ">> \o e.msg
               [] OTHER -> <<"Unexpected error: ">> \o e.msg,
     status |-> IntV(0)]

\* The except clauses of generate, in order (JSONDecodeError is a ValueError),
\* each followed by sys.exit(1).
Handler(e) ==
    [msg |-> CASE e.kind = "JSONDecodeError" -> <<"Error parsing JSON schema: ">> \o e.msg
               [] e.kind = "ValueError" -> <<"Error: ">> \o e.msg
               [] OTHER -> <<"Unexpected error: ">> \o e.msg,
     status |-> IntV(1)]

CliSchemas ==
    { JsonText(Dict(<< <<"id", Str("uuid")>>, <<"email", Str("email")>> >>)),
      JsonText(Dict(<< <<"a", Str("email")>>, <<"b", Str("nope")>> >>)),
      JsonText(Dict(<< <<"n", Dict(<< <<"type", Str("integer")>>, <<"min", IntV(3)>>,
                                      <<"max", IntV(1)>> >>)>> >>)),
      JsonText(List(<<IntV(1), IntV(2)>>)),
      Garbage, EmptyText }

CliInit ==
    /\ \E template \in {None, Str("login"), Str("bogus")},
          schema_ \in {None} \cup CliSchemas,
          schema_file \in {None, Garbage},
          count_ \in 0..MaxCount,
          output_format \in {"json", "csv", "sql", "yaml"},
          output \in {None, Str("out.txt")},
          yaml_installed \in BOOLEAN, writable \in BOOLEAN :
          cli = [template |-> template, schema |-> schema_, schema_file |-> schema_file,
                 count |-> count_, output_format |-> output_format, output |-> output,
                 seed |-> IntV(1), table |-> "test_data", dialect |-> "standard",
                 compact |-> FALSE,
                 yaml_installed |-> yaml_installed, writable |-> writable,
                 gen |-> NoCtx, data_schema |-> None, data |-> None, result |-> <<>>]
    /\ cpc = "start"
    /\ stdout = <<>>
    /\ stderr = <<>>
    /\ outfile = None
    /\ exitStatus = None

\* An exception reaches the except clauses: the message goes to the error
\* stream and the process exits.
Fails(e) ==
    /\ stderr' = Append(stderr, Handler(e).msg)
    /\ exitStatus' = Handler(e).status
    /\ cpc' = "exit"
    /\ UNCHANGED <<cli, stdout, outfile>>

\* gen = TestDataGenerator(locale=locale, seed=seed)
CliConstruct ==
    /\ cpc = "start"
    /\ \E e \in EntropyStates :
          cli' = [cli EXCEPT !.gen =
                     [fake |-> IF cli.seed = None THEN Stream(e) ELSE Seeded(cli.seed.n),
                      rand |-> IF cli.seed = None THEN Stream(e) ELSE Seeded(cli.seed.n),
                      os |-> Stream(e), clock |-> e, calls |-> <<>>, top |-> <<>>]]
    /\ cpc' = "schema"
    /\ UNCHANGED <<stdout, stderr, outfile, exitStatus>>
    /\ UNCHANGED notCli

\* "Determine the schema to use"
CliSchema ==
    /\ cpc = "schema"
    /\ IF cli.schema_file # None
       THEN LET r == json_loads(cli.schema_file)
            IN  IF r.ok THEN /\ cli' = [cli EXCEPT !.data_schema = r.val]
                             /\ cpc' = "generate"
                             /\ UNCHANGED <<stdout, stderr, outfile, exitStatus>>
                ELSE Fails(r.err)
       ELSE IF cli.schema # None /\ cli.schema.kind # "empty"
       THEN LET r == json_loads(cli.schema)
            IN  IF r.ok THEN /\ cli' = [cli EXCEPT !.data_schema = r.val]
                             /\ cpc' = "generate"
                             /\ UNCHANGED <<stdout, stderr, outfile, exitStatus>>
                ELSE Fails(r.err)
       ELSE IF cli.template # None /\ Truthy(cli.template)
       THEN LET r == get_template_schema(Text(cli.template), Heap0)
            IN  IF r.ok THEN /\ cli' = [cli EXCEPT !.data_schema = Deref(r.val, r.heap)]
                             /\ cpc' = "generate"
                             /\ UNCHANGED <<stdout, stderr, outfile, exitStatus>>
                ELSE Fails(r.err)
       ELSE /\ stderr' = stderr
                \o <<<<"Error: Provide a template name or --schema/--schema-file">>,
                     <<"\nAvailable templates:">>>>
                \o [k \in 1..Len(TemplateNames) |-> <<"  - ", TemplateNames[k]>>]
            /\ exitStatus' = IntV(1)
            /\ cpc' = "exit"
            /\ UNCHANGED <<cli, stdout, outfile>>
    /\ UNCHANGED notCli

\* data = gen.generate_from_schema(data_schema, count=count)
CliGenerate ==
    /\ cpc = "generate"
    /\ LET r == generate_from_schema(cli.data_schema, IntV(cli.count), cli.gen)
       IN  IF r.ok THEN /\ cli' = [cli EXCEPT !.data = r.val, !.gen = r.ctx]
                        /\ cpc' = "format"
                        /\ UNCHANGED <<stdout, stderr, outfile, exitStatus>>
           ELSE Fails(r.err)
    /\ UNCHANGED notCli

\* formatter = get_formatter(output_format, **formatter_kwargs)
\* result = formatter.format(data)
CliFormat ==
    /\ cpc = "format"
    /\ LET kwargs == [indent |-> IF cli.compact THEN 0 ELSE 2,
                      single_object |-> cli.count = 1,
                      table_name |-> cli.table, dialect |-> cli.dialect]
           r == FormatWith(cli.output_format, kwargs, cli.data.items, cli.yaml_installed)
       IN  IF r.ok THEN /\ cli' = [cli EXCEPT !.result = r.val]
                        /\ cpc' = "output"
                        /\ UNCHANGED <<stdout, stderr, outfile, exitStatus>>
           ELSE Fails(r.err)
    /\ UNCHANGED notCli

\* Path(output).write_text(result) and the confirmation, or click.echo(result);
\* then the command returns.
CliOutput ==
    /\ cpc = "output"
    /\ IF cli.output # None /\ Truthy(cli.output)
       THEN IF cli.writable
            THEN /\ outfile' = [text |-> cli.result]
                 /\ stderr' = Append(stderr, <<"Generated ", ToString(cli.count),
                                               " record(s) -> ">> \o cli.output.s)
                 /\ exitStatus' = IntV(0)
                 /\ cpc' = "exit"
                 /\ UNCHANGED <<cli, stdout>>
            ELSE Fails(Raise("PermissionError", <<"Permission denied: ">> \o cli.output.s))
       ELSE /\ stdout' = Append(stdout, cli.result \o <<"\n">>)
            /\ exitStatus' = IntV(0)
            /\ cpc' = "exit"
            /\ UNCHANGED <<cli, stderr, outfile>>
    /\ UNCHANGED notCli

InitCli == CliInit /\ GenIdle /\ FieldIdle /\ RegIdle /\ SqlIdle /\ FmtIdle
NextCli == CliConstruct \/ CliSchema \/ CliGenerate \/ CliFormat \/ CliOutput
SpecCli == InitCli /\ [][NextCli]_vars

----------------------------------------------------------------------------
\* Properties of the generate command (SpecCli).

Exited == cpc = "exit"

\* The source of the schema, in the command's order of preference.
SchemaSource ==
    IF cli.schema_file # None THEN "schema_file"
    ELSE IF cli.schema # None /\ cli.schema.kind # "empty" THEN "schema"
    ELSE IF cli.template # None /\ Text(cli.template) # "" THEN "template"
    ELSE "none"

\* The schema literal in use is no JSON text.
Malformed ==
    \/ SchemaSource = "schema_file" /\ cli.schema_file.kind # "json"
    \/ SchemaSource = "schema" /\ cli.schema.kind # "json"

UnknownTemplate == SchemaSource = "template" /\ Text(cli.template) \notin NameSet

\* The schema in use is a mapping with a field that does not resolve, and at
\* least one record is asked for.
ResolutionFails ==
    /\ cli.count >= 1
    /\ \/ SchemaSource = "schema" /\ cli.schema.kind = "json" /\ IsDict(cli.schema.v)
          /\ \E k \in 1..Len(cli.schema.v.pairs) : ~Resolves(cli.schema.v.pairs[k][2])
       \/ SchemaSource = "schema_file" /\ cli.schema_file.kind = "json"
          /\ IsDict(cli.schema_file.v)
          /\ \E k \in 1..Len(cli.schema_file.v.pairs) :
                ~Resolves(cli.schema_file.v.pairs[k][2])

FormattingFails ==
    cpc \in {"output", "exit"} /\ cli.data # None
        /\ cli.output_format = "yaml" /\ ~cli.yaml_installed

\* C7: while the command runs nothing is written to standard output or to the
\* output file. When it has exited: after a malformed schema literal, no schema
\* source, an unknown template, a field that does not resolve or a formatter
\* that fails, the status is 1; with status 1 a message is on the error stream
\* and nothing was written to standard output or to the file; otherwise the
\* status is 0 and the formatted result was written once, to the file if
\* --output was given and else to standard output.
C7_FailureWritesNothing ==
    /\ ~Exited => (stdout = <<>> /\ outfile = None /\ exitStatus = None)
    /\ Exited =>
          /\ exitStatus \in {IntV(0), IntV(1)}
          /\ (SchemaSource = "none" \/ Malformed \/ UnknownTemplate \/ ResolutionFails
                 \/ FormattingFails) => exitStatus = IntV(1)
          /\ exitStatus = IntV(1) =>
                (stderr # <<>> /\ stdout = <<>> /\ outfile = None)
          /\ exitStatus = IntV(0) =>
                IF cli.output # None
                THEN outfile = [text |-> cli.result] /\ stdout = <<>>
                ELSE stdout = <<cli.result \o <<"\n">>>> /\ outfile = None

C7_Witness ==
    /\ Exited
    /\ exitStatus = IntV(1)
    /\ cli.output # None /\ cli.count = 2
    /\ Render(stderr[Len(stderr)]) = "Error: Unknown field type: nope"
    /\ stdout = <<>> /\ outfile = None

----------------------------------------------------------------------------
\* The tabular and the statement formatter applied to a record sequence
\* (SpecFmt).

Delimiters == {",", ";", "\t", "|"}
TableNames == {"t", "test_data"}

\* Record sequences handed to a formatter: none, one and two records.
FmtData ==
    {<<>>}
    \cup {<<Row(a, b, None)>> : a \in SqlValues, b \in SqlValues}
    \cup {<<Row(a, Bool(TRUE), None), Row(OBrien, Bool(FALSE), a)>> : a \in SqlValues}

\* CSVFormatter(delimiter, include_header) or SQLFormatter(table_name, dialect)
FmtInit ==
    /\ \/ \E data \in FmtData, delimiter \in Delimiters, include_header \in BOOLEAN :
             fmtIn = [kind |-> "csv", data |-> data, delimiter |-> delimiter,
                      include_header |-> include_header]
       \/ \E data \in FmtData, table_name \in TableNames, dialect \in Dialects :
             fmtIn = [kind |-> "sql", data |-> data, table_name |-> table_name,
                      dialect |-> dialect]
    /\ fmtOut = Pending

FormatCsv ==
    /\ fmtOut = Pending
    /\ fmtIn.kind = "csv"
    /\ fmtOut' = CsvFormat(fmtIn.data, fmtIn.delimiter, fmtIn.include_header)
    /\ UNCHANGED fmtIn
    /\ UNCHANGED notFmt

FormatStatements ==
    /\ fmtOut = Pending
    /\ fmtIn.kind = "sql"
    /\ fmtOut' = [ok |-> TRUE,
                  val |-> SqlFormat(fmtIn.data, fmtIn.table_name, fmtIn.dialect)]
    /\ UNCHANGED fmtIn
    /\ UNCHANGED notFmt

InitFmt == FmtInit /\ GenIdle /\ FieldIdle /\ RegIdle /\ SqlIdle /\ CliIdle
NextFmt == FormatCsv \/ FormatStatements
SpecFmt == InitFmt /\ [][NextFmt]_vars

----------------------------------------------------------------------------
\* Properties of the formatters (SpecFmt).

FmtDone == fmtOut # Pending

\* C11: formatting an empty record sequence with the tabular formatter or
\* with the statement formatter returns the empty string, whatever the
\* delimiter, the header setting, the table name and the dialect: no error,
\* no header line, no statement.
C11_EmptyFormatsToEmptyString ==
    (FmtDone /\ fmtIn.data = <<>>) =>
        /\ fmtOut.ok
        /\ fmtOut.val = <<>>
        /\ Render(fmtOut.val) = ""

\* The tabular formatter, asked for a header and a delimiter other than the
\* default, has formatted the empty sequence.
C11_Witness ==
    /\ FmtDone
    /\ fmtIn.kind = "csv" /\ fmtIn.data = <<>>
    /\ fmtIn.include_header /\ fmtIn.delimiter = ";"
    /\ fmtOut.ok /\ Render(fmtOut.val) = ""

====
